---- MODULE Spec2Model ----
(***************************************************************************)
(* Core ML exporters for DistilBert/Bert question answering and SegFormer. *)
(*                                                                         *)
(* The two export() functions are straight-line glue around four external  *)
(* calls (torch.jit.trace, ct.convert, ct.models.MLModel, quantize_weights)*)
(* and the three descriptor helpers of coreml_utils.py.  One call of       *)
(* export() is modelled as a program counter walking through the function; *)
(* every external call either succeeds or raises, and the converter picks  *)
(* the initial output names and shapes.  The helpers are also modelled on  *)
(* their own (SpecUtil) over arbitrary small descriptors.                  *)
(***************************************************************************)
EXTENDS Integers, Sequences, FiniteSets, TLC

\* ------------------------------------------------------------------ bounds
\* sequence_length (DistilBert) and feature_extractor.size (SegFormer)
MaxSize == 2
\* config.num_labels / channel count of the model's first output
MaxLabels == 2
\* descriptors handed to the helpers in SpecUtil
MaxOutputs == 2
MaxDims == 2

VARIABLES
    pc,                   \* position inside export()
    exporter,             \* which module's export() is running
    torch_model,          \* class of the model argument
    arg_ok,               \* isinstance(tokenizer / feature_extractor, <expected type>)
    size,                 \* sequence_length, or feature_extractor.size
    quantize,
    legacy,
    do_upsample,
    do_argmax,
    num_labels,           \* torch_model.config.num_labels
    model_hw,             \* spatial size of the model's own first output
    transformers_version, \* torch_model.config.transformers_version
    description,          \* mlmodel._spec.description (mutated in place)
    mlmodel,              \* which package the local variable mlmodel holds
    pkg_description,      \* descriptor the reloaded package was built from
    convert_args,         \* keyword arguments of the ct.convert call
    converter_names,      \* output names as ct.convert first gave them
    quantized_from,       \* package handed to quantize_weights
    log,                  \* external calls and descriptor mutations, in order
    err,                  \* exception that ended the call
    u_outputs,            \* SpecUtil: spec.description.output
    u_before,             \* SpecUtil: the same list before the last helper call
    u_op,                 \* SpecUtil: last helper called
    u_arg,                \* SpecUtil: its argument (name or shape)
    u_idx,                \* SpecUtil: index of the node argument
    u_ret                 \* SpecUtil: its return value

exportVars == <<pc, exporter, torch_model, arg_ok, size, quantize, legacy, do_upsample,
                do_argmax, num_labels, model_hw, transformers_version, description,
                mlmodel, pkg_description, convert_args, converter_names, quantized_from,
                log, err>>
utilVars == <<u_outputs, u_before, u_op, u_arg, u_idx, u_ret>>
vars == <<exportVars, utilVars>>

\* ------------------------------------------------------------ value domains
QAClasses == {"BertForQuestionAnswering", "DistilBertForQuestionAnswering"}
SegformerClasses == {"SegformerForImageClassification",
                     "SegformerForSemanticSegmentation", "SegformerModel"}
ModelClasses == QAClasses \cup SegformerClasses \cup {"OtherModel"}
QuantizeValues == {"float32", "float16", "int8"}
\* config.transformers_version: None, the empty string, or a version string
NoneValue == "<None>"
VersionValues == {NoneValue, "", "4.21.0"}
\* config.id2label, in index order
ClassNames == <<"cat", "dog", "bird", "fish">>
\* names the converter may give an output before any renaming
ConverterNames == {"var_1", "var_2", "probabilities"}
ConverterShapes == {<<>>, <<1>>}

EmptyDict == [k \in {} |-> ""]
NoDescription == [input |-> <<>>, output |-> <<>>, predictedFeatureName |-> "",
                  predictedProbabilitiesName |-> "", userDefined |-> EmptyDict]
NoArgs == [convert_to |-> "", compute_precision |-> "", classifier_config |-> <<>>,
           input_name |-> "", input_type |-> ""]

\* ------------------------------------------------------------- coreml_utils
\* Names a module doing `from ..coreml_utils import *` gets from coreml_utils.py.
CoremlUtilsNames == {"np", "ct", "get_output_names", "get_output_named",
                     "set_multiarray_shape"}

\* A call of a global function name resolves only if the name is bound.
NameDefined(name) == name \in CoremlUtilsNames

RECURSIVE NamesFrom(_, _, _)
NamesFrom(outs, i, acc) ==
    IF i > Len(outs) THEN acc ELSE NamesFrom(outs, i + 1, Append(acc, outs[i].name))

\* get_output_names(spec): the loop appends out.name for each output.
get_output_names(outs) == NamesFrom(outs, 1, <<>>)

RECURSIVE NamedFrom(_, _, _)
NamedFrom(outs, name, i) ==
    IF i > Len(outs) THEN 0
    ELSE IF outs[i].name = name THEN i
    ELSE NamedFrom(outs, name, i + 1)

RECURSIVE LastNamedFrom(_, _, _)
LastNamedFrom(outs, name, i) ==
    IF i < 1 THEN 0
    ELSE IF outs[i].name = name THEN i
    ELSE LastNamedFrom(outs, name, i - 1)

\* Variant: the loop keeps going and the last match wins.
get_output_named_last(outs, name) == LastNamedFrom(outs, name, Len(outs))

\* get_output_named(spec, name): the position of the output object returned,
\* 0 for None.
get_output_named(outs, name) == NamedFrom(outs, name, 1)

RECURSIVE AppendAll(_, _, _)
AppendAll(acc, shape, i) ==
    IF i > Len(shape) THEN acc ELSE AppendAll(Append(acc, shape[i]), shape, i + 1)

\* Variant: the old entries are not deleted first.
set_multiarray_shape_no_clear(node, shape) ==
    [node EXCEPT !.shape = AppendAll(@, shape, 1)]

\* set_multiarray_shape(node, shape): del shape[:], then append each x.
set_multiarray_shape(node, shape) ==
    [node EXCEPT !.shape = AppendAll(<<>>, shape, 1)]

\* ------------------------------------------------------- toolchain (external)
\* Python truthiness of config.transformers_version.
Truthy(v) == v \notin {NoneValue, ""}

\* is_any_instance(obj, types): bound nowhere in the modules' namespaces; its
\* meaning, were it bound, is the one its name and the specification give it.
IsAnyInstance(cls, types) == cls \in types

\* get_labels_as_list(model): likewise unbound; the labels in index order.
GetLabelsAsList == SubSeq(ClassNames, 1, num_labels)

\* [id2label[x] for x in range(num_labels)]
ClassLabels == [x \in 1..num_labels |-> ClassNames[x]]

\* ct.utils.rename_feature(spec, current_name, new_name): every input and
\* output carrying current_name is renamed, and so are the two predicted-*
\* pointers when they carry it.
RenameFeature(d, current, new) ==
    [d EXCEPT
        !.input = [i \in DOMAIN d.input |->
                     IF d.input[i].name = current
                     THEN [d.input[i] EXCEPT !.name = new] ELSE d.input[i]],
        !.output = [i \in DOMAIN d.output |->
                     IF d.output[i].name = current
                     THEN [d.output[i] EXCEPT !.name = new] ELSE d.output[i]],
        !.predictedFeatureName = IF @ = current THEN new ELSE @,
        !.predictedProbabilitiesName = IF @ = current THEN new ELSE @]

\* mlmodel.input_description[name] = text / mlmodel.output_description[...]:
\* the short description of the feature of that name.
Describe(feats, name, text) ==
    LET i == NamedFrom(feats, name, 1)
    IN IF i = 0 THEN feats ELSE [feats EXCEPT ![i].shortDescription = text]

RECURSIVE JoinFrom(_, _, _)
JoinFrom(labels, sep, i) ==
    IF i > Len(labels) THEN ""
    ELSE IF i = Len(labels) THEN labels[i]
    ELSE labels[i] \o sep \o JoinFrom(labels, sep, i + 1)

\* ",".join(labels)
CommaJoin(labels) == JoinFrom(labels, ",", 1)

\* json.dumps({"labels": labels})
JsonDumpsLabels(labels) ==
    "{\"labels\": [" \o
    JoinFrom([i \in DOMAIN labels |-> "\"" \o labels[i] \o "\""], ", ", 1) \o "]}"

\* ------------------------------------------------------------ the adapters
\* distilbert.Wrapper.forward on the example input: how many tensors it
\* returns (0 for None), or the exception it ends with.
DistilbertForward ==
    IF ~NameDefined("is_any_instance")
    THEN [raised |-> "NameError", outputs |-> 0]
    ELSE IF IsAnyInstance(torch_model, QAClasses)
    THEN [raised |-> "none", outputs |-> 2]
    ELSE [raised |-> "none", outputs |-> 0]

\* Shape of the model's own first output on a (1, 3, size, size) input.
ModelOutputShape ==
    IF torch_model = "SegformerForImageClassification"
    THEN <<1, num_labels>> ELSE <<1, num_labels, model_hw, model_hw>>

\* Shape after x.argmax(1): dimension 1 (0-based) is reduced away.
ArgmaxShape(x) == <<x[1]>> \o SubSeq(x, 3, Len(x))

\* Shape after interpolate(x, size=inputs.shape[-2:]).
InterpolateShape(x) == <<x[1], x[2], size, size>>

\* segformer.Wrapper.forward on the example input: the shape of the tensor it
\* returns, <<>> with outputs = 0 for None.
SegformerForward ==
    IF torch_model = "SegformerForImageClassification"
    THEN [raised |-> "none", outputs |-> 1, shape |-> ModelOutputShape]
    ELSE IF torch_model = "SegformerForSemanticSegmentation"
    THEN LET x0 == ModelOutputShape
             x1 == IF do_upsample THEN InterpolateShape(x0) ELSE x0
             x2 == IF do_argmax THEN ArgmaxShape(x1) ELSE x1
         IN [raised |-> "none", outputs |-> 1, shape |-> x2]
    ELSE IF torch_model = "SegformerModel"
    THEN [raised |-> "none", outputs |-> 1, shape |-> ModelOutputShape]
    ELSE [raised |-> "none", outputs |-> 0, shape |-> <<>>]

Forward == IF exporter = "distilbert" THEN DistilbertForward ELSE SegformerForward

\* --------------------------------------------------------- convert arguments
\* Variant: the precision is passed whether or not legacy is set.
ComputePrecisionIgnoringLegacy ==
    IF quantize = "float16" THEN "FLOAT16" ELSE "FLOAT32"

\* convert_kwargs["compute_precision"], "<absent>" when the key is not set.
ComputePrecision ==
    IF ~legacy
    THEN (IF quantize = "float16" THEN "FLOAT16" ELSE "FLOAT32")
    ELSE "<absent>"

\* convert_to=
ConvertTo == IF legacy THEN "neuralnetwork" ELSE "mlprogram"

\* convert_kwargs['classifier_config'], <<>> when the key is not set.
ClassifierConfig ==
    IF exporter = "segformer" /\ torch_model = "SegformerForImageClassification"
    THEN ClassLabels ELSE <<>>

ConvertArgs ==
    [convert_to |-> ConvertTo, compute_precision |-> ComputePrecision,
     classifier_config |-> ClassifierConfig,
     input_name |-> IF exporter = "distilbert" THEN "input_ids" ELSE "image",
     input_type |-> IF exporter = "distilbert" THEN "TensorType" ELSE "ImageType"]

Feature(name, shape) == [name |-> name, shape |-> shape, shortDescription |-> ""]

\* The descriptor ct.convert produces: one output per tensor the adapter
\* returns, in the adapter's order, under names and shapes of the converter's
\* choosing; with a classifier config, the probabilities output is followed by
\* the predicted label and both pointers are set.
Converted(args, names, shape) ==
    LET classifier == args.classifier_config # <<>>
        outs == [i \in DOMAIN names |-> Feature(names[i], shape)]
    IN [input |-> <<Feature(args.input_name, <<>>)>>,
        output |-> IF classifier THEN Append(outs, Feature("classLabel", <<>>)) ELSE outs,
        predictedFeatureName |-> IF classifier THEN "classLabel" ELSE "",
        predictedProbabilitiesName |-> IF classifier /\ Len(names) > 0 THEN names[1] ELSE "",
        userDefined |-> ("com.github.apple.coremltools.source" :> "torch")]

\* ------------------------------------------ export(): after ct.convert
\* The code between ct.convert and the reload runs on a record: the
\* descriptor d, the events ev it has appended so far, the local dict
\* user_defined_metadata md, and the exception raised, if any.
Step(s, d2, e) == [s EXCEPT !.d = d2, !.ev = Append(@, e)]

SetOutputShape(d, i, shape) ==
    [d EXCEPT !.output[i] = set_multiarray_shape(@, shape)]

DescribeInput(d, name, text) == [d EXCEPT !.input = Describe(@, name, text)]
DescribeOutput(d, name, text) == [d EXCEPT !.output = Describe(@, name, text)]

\* user_defined_metadata = {}; if config.transformers_version: ...
InitialMetadata ==
    IF Truthy(transformers_version)
    THEN ("transformers_version" :> transformers_version) ELSE EmptyDict

\* if len(user_defined_metadata) > 0: userDefined.update(user_defined_metadata)
UpdateMetadata(s) ==
    IF Cardinality(DOMAIN s.md) > 0
    THEN Step(s, [s.d EXCEPT !.userDefined = s.md @@ @], "metadata")
    ELSE s

\* distilbert.export, the body of the question-answering branch.
QAPost(s) ==
    LET s1 == Step(s, RenameFeature(s.d, s.d.output[1].name, "start_scores"), "rename")
        s2 == Step(s1, SetOutputShape(s1.d, 1, <<1, size>>), "set_shape")
        s3 == Step(s2, RenameFeature(s2.d, s2.d.output[2].name, "end_scores"), "rename")
        s4 == Step(s3, SetOutputShape(s3.d, 2, <<1, size>>), "set_shape")
        s5 == Step(s4, DescribeInput(s4.d, "input_ids",
                       "Indices of input sequence tokens in the vocabulary"), "describe")
        s6 == Step(s5, DescribeOutput(s5.d, "start_scores",
                       "Span-start scores (after softmax)"), "describe")
    IN Step(s6, DescribeOutput(s6.d, "end_scores",
                       "Span-end scores (after softmax)"), "describe")

\* distilbert.export from `spec = mlmodel._spec` to the metadata update.
DistilbertPost(d) ==
    LET s0 == [d |-> d, ev |-> <<>>, md |-> InitialMetadata, raised |-> "none"]
    IN IF ~NameDefined("is_any_instance")
       THEN [s0 EXCEPT !.raised = "NameError"]
       ELSE UpdateMetadata(IF IsAnyInstance(torch_model, QAClasses) THEN QAPost(s0) ELSE s0)

\* Variant: the pointer is set but the output itself is not renamed.
ClassificationPostPointerOnly(s) ==
    LET s2 == Step(s, [s.d EXCEPT !.predictedProbabilitiesName = "probabilities"],
                   "set_pointer")
        s3 == Step(s2, DescribeInput(s2.d, "image", "Image to be classified"), "describe")
        s4 == Step(s3, DescribeOutput(s3.d, "probabilities",
                       "Probability of each category"), "describe")
    IN Step(s4, DescribeOutput(s4.d, "classLabel",
                       "Category with the highest score"), "describe")

\* segformer.export, the body of the classification branch.
ClassificationPost(s) ==
    LET probs_output_name == s.d.predictedProbabilitiesName
        s1 == Step(s, RenameFeature(s.d, probs_output_name, "probabilities"), "rename")
        s2 == Step(s1, [s1.d EXCEPT !.predictedProbabilitiesName = "probabilities"],
                   "set_pointer")
        s3 == Step(s2, DescribeInput(s2.d, "image", "Image to be classified"), "describe")
        s4 == Step(s3, DescribeOutput(s3.d, "probabilities",
                       "Probability of each category"), "describe")
    IN Step(s4, DescribeOutput(s4.d, "classLabel",
                       "Category with the highest score"), "describe")

\* segformer.export, the body of the semantic-segmentation branch.
SegmentationPost(s) ==
    LET new_output_name == IF do_argmax THEN "classLabels" ELSE "probabilities"
        s1 == Step(s, RenameFeature(s.d, s.d.output[1].name, new_output_name), "rename")
        s2 == [s1 EXCEPT !.ev = Append(@, "forward")]
        temp == SegformerForward
        s3 == Step(s2, SetOutputShape(s2.d, 1, temp.shape), "set_shape")
        s4 == Step(s3, DescribeInput(s3.d, "image", "Image input"), "describe")
        s5 == Step(s4, DescribeOutput(s4.d, new_output_name, "Segmentation map"), "describe")
    IN IF ~NameDefined("get_labels_as_list")
       THEN [s5 EXCEPT !.raised = "NameError"]
       ELSE LET labels == GetLabelsAsList
                s6 == [s5 EXCEPT !.md = ("classes" :> CommaJoin(labels)) @@ @]
                s7 == Step(s6, [s6.d EXCEPT !.userDefined =
                             ("com.apple.coreml.model.preview.type" :> "imageSegmenter") @@ @],
                           "metadata")
            IN Step(s7, [s7.d EXCEPT !.userDefined =
                             ("com.apple.coreml.model.preview.params" :>
                                  JsonDumpsLabels(labels)) @@ @],
                    "metadata")

\* segformer.export, the body of the plain-encoder branch.
EncoderPost(s) ==
    LET s1 == Step(s, RenameFeature(s.d, s.d.output[1].name, "last_hidden_state"), "rename")
        s2 == [s1 EXCEPT !.ev = Append(@, "forward")]
        temp == SegformerForward
        s3 == Step(s2, SetOutputShape(s2.d,
                         get_output_named(s2.d.output, "last_hidden_state"), temp.shape),
                   "set_shape")
        s4 == Step(s3, DescribeInput(s3.d, "image", "Image input"), "describe")
    IN Step(s4, DescribeOutput(s4.d, "last_hidden_state",
                       "Hidden states from the last layer"), "describe")

\* segformer.export from `spec = mlmodel._spec` to the metadata update.
SegformerPost(d) ==
    LET s0 == [d |-> d, ev |-> <<>>, md |-> InitialMetadata, raised |-> "none"]
        a == IF torch_model = "SegformerForImageClassification"
             THEN ClassificationPost(s0) ELSE s0
        b == IF torch_model = "SegformerForSemanticSegmentation"
             THEN SegmentationPost(a) ELSE a
        c == IF b.raised = "none" /\ torch_model = "SegformerModel"
             THEN EncoderPost(b) ELSE b
    IN IF c.raised = "none" THEN UpdateMetadata(c) ELSE c

\* --------------------------------------------------------- export(): steps
Raise(e) ==
    /\ pc' = "raised"
    /\ err' = e

\* Variant: the legacy flag is not consulted.
QuantizeWheneverFloat16 == quantize = "float16"

\* if legacy and quantize == "float16":
NeedsPostHocQuantization == legacy /\ quantize = "float16"

UtilIdle ==
    /\ u_outputs = <<>>
    /\ u_before = <<>>
    /\ u_op = "none"
    /\ u_arg = <<>>
    /\ u_idx = 0
    /\ u_ret = <<>>

ExportIdle ==
    /\ pc = "idle"
    /\ exporter = "none"
    /\ torch_model = "none"
    /\ arg_ok = FALSE
    /\ size = 1
    /\ quantize = "float32"
    /\ legacy = FALSE
    /\ do_upsample = TRUE
    /\ do_argmax = TRUE
    /\ num_labels = 1
    /\ model_hw = 1
    /\ transformers_version = NoneValue
    /\ description = NoDescription
    /\ mlmodel = "none"
    /\ pkg_description = NoDescription
    /\ convert_args = NoArgs
    /\ converter_names = <<>>
    /\ quantized_from = "none"
    /\ log = <<>>
    /\ err = "none"

Init == ExportIdle /\ UtilIdle

\* A caller invokes distilbert.export(torch_model, tokenizer, sequence_length,
\* quantize, legacy).
CallDistilbert ==
    /\ pc = "idle"
    /\ pc' = "check"
    /\ exporter' = "distilbert"
    /\ torch_model' \in ModelClasses
    /\ arg_ok' \in BOOLEAN
    /\ size' \in 1..MaxSize
    /\ quantize' \in QuantizeValues
    /\ legacy' \in BOOLEAN
    /\ num_labels' \in 1..MaxLabels
    /\ transformers_version' \in VersionValues
    /\ UNCHANGED <<do_upsample, do_argmax, model_hw, description, mlmodel, pkg_description,
                   convert_args, converter_names, quantized_from, log, err, utilVars>>

\* A caller invokes segformer.export(torch_model, feature_extractor,
\* do_upsample, do_argmax, quantize, legacy).
CallSegformer ==
    /\ pc = "idle"
    /\ pc' = "check"
    /\ exporter' = "segformer"
    /\ torch_model' \in ModelClasses
    /\ arg_ok' \in BOOLEAN
    /\ size' \in 1..MaxSize
    /\ model_hw' \in 1..size'
    /\ quantize' \in QuantizeValues
    /\ legacy' \in BOOLEAN
    /\ do_upsample' \in BOOLEAN
    /\ do_argmax' \in BOOLEAN
    /\ num_labels' \in 1..MaxLabels
    /\ transformers_version' \in VersionValues
    /\ UNCHANGED <<description, mlmodel, pkg_description, convert_args, converter_names,
                   quantized_from, log, err, utilVars>>

inputVars == <<exporter, torch_model, arg_ok, size, quantize, legacy, do_upsample,
               do_argmax, num_labels, model_hw, transformers_version>>

\* Variant: the type check is missing.
CheckArgumentSkipped ==
    /\ pc = "check"
    /\ pc' = "trace"
    /\ UNCHANGED <<inputVars, description, mlmodel, pkg_description, convert_args,
                   converter_names, quantized_from, log, err, utilVars>>

\* if not isinstance(tokenizer, PreTrainedTokenizerBase): raise ValueError
\* if not isinstance(feature_extractor, SegformerFeatureExtractor): raise ValueError
CheckArgument ==
    /\ pc = "check"
    /\ IF arg_ok THEN pc' = "trace" /\ err' = err ELSE Raise("ValueError")
    /\ UNCHANGED <<inputVars, description, mlmodel, pkg_description, convert_args,
                   converter_names, quantized_from, log, utilVars>>

\* torch.jit.trace(wrapper, example_input): runs the adapter once; whatever the
\* adapter or the tracer raises propagates.
Trace ==
    /\ pc = "trace"
    /\ log' = Append(log, "trace")
    /\ IF Forward.raised # "none"
       THEN Raise(Forward.raised)
       ELSE \E ok \in BOOLEAN :
              IF ok THEN pc' = "convert" /\ err' = err ELSE Raise("ToolchainError")
    /\ UNCHANGED <<inputVars, description, mlmodel, pkg_description, convert_args,
                   converter_names, quantized_from, utilVars>>

Injective(f) == \A i, j \in DOMAIN f : f[i] = f[j] => i = j

\* mlmodel = ct.convert(traced_model, inputs=[...], convert_to=..., **convert_kwargs)
Convert ==
    /\ pc = "convert"
    /\ log' = Append(log, "convert")
    /\ convert_args' = ConvertArgs
    /\ \E ok \in BOOLEAN :
         IF ok
         THEN /\ \E names \in [1..Forward.outputs -> ConverterNames], shape \in ConverterShapes :
                   /\ Injective(names)
                   /\ description' = Converted(ConvertArgs, names, shape)
                   /\ converter_names' = names
              /\ mlmodel' = "converted"
              /\ pc' = "post"
              /\ err' = err
         ELSE /\ Raise("ToolchainError")
              /\ UNCHANGED <<description, mlmodel, converter_names>>
    /\ UNCHANGED <<inputVars, pkg_description, quantized_from, utilVars>>

\* Everything between `spec = mlmodel._spec` and the reload.
PostProcess ==
    /\ pc = "post"
    /\ LET r == IF exporter = "distilbert"
                THEN DistilbertPost(description) ELSE SegformerPost(description)
       IN /\ description' = r.d
          /\ log' = log \o r.ev
          /\ IF r.raised = "none" THEN pc' = "reload" /\ err' = err ELSE Raise(r.raised)
    /\ UNCHANGED <<inputVars, mlmodel, pkg_description, convert_args, converter_names,
                   quantized_from, utilVars>>

\* Variant: the metadata update is placed after the reload.
ReloadBeforeMetadataUpdate ==
    /\ pc = "reload"
    /\ log' = log \o <<"reload", "metadata">>
    /\ mlmodel' = "reloaded"
    /\ pkg_description' = description
    /\ description' = [description EXCEPT !.userDefined = ("late" :> "update") @@ @]
    /\ pc' = IF legacy /\ quantize = "float16" THEN "quantize" ELSE "return"
    /\ UNCHANGED <<inputVars, convert_args, converter_names, quantized_from, err, utilVars>>

\* mlmodel = ct.models.MLModel(mlmodel._spec, weights_dir=mlmodel.weights_dir)
Reload ==
    /\ pc = "reload"
    /\ log' = Append(log, "reload")
    /\ \E ok \in BOOLEAN :
         IF ok
         THEN /\ mlmodel' = "reloaded"
              /\ pkg_description' = description
              /\ pc' = IF NeedsPostHocQuantization THEN "quantize" ELSE "return"
              /\ err' = err
         ELSE /\ Raise("ToolchainError")
              /\ UNCHANGED <<mlmodel, pkg_description>>
    /\ UNCHANGED <<inputVars, description, convert_args, converter_names, quantized_from,
                   utilVars>>

\* mlmodel = quantization_utils.quantize_weights(mlmodel, nbits=16)
Quantize ==
    /\ pc = "quantize"
    /\ log' = Append(log, "quantize")
    /\ quantized_from' = mlmodel
    /\ \E ok \in BOOLEAN :
         IF ok
         THEN /\ mlmodel' = "quantized"
              /\ pc' = "return"
              /\ err' = err
         ELSE /\ Raise("ToolchainError")
              /\ UNCHANGED mlmodel
    /\ UNCHANGED <<inputVars, description, pkg_description, convert_args, converter_names,
                   utilVars>>

\* return mlmodel
Return ==
    /\ pc = "return"
    /\ pc' = "returned"
    /\ UNCHANGED <<inputVars, description, mlmodel, pkg_description, convert_args,
                   converter_names, quantized_from, log, err, utilVars>>

Next ==
    \/ CallDistilbert
    \/ CallSegformer
    \/ CheckArgument
    \/ Trace
    \/ Convert
    \/ PostProcess
    \/ Reload
    \/ Quantize
    \/ Return

Spec == Init /\ [][Next]_vars

\* ------------------------------------------------- the helpers on their own
UtilNames == {"a", "b"}
LookupNames == UtilNames \cup {"c"}
\* Shapes of every length up to MaxDims, in both orders; 0 is a legal entry.
UtilShapes == {[i \in 1..k |-> i - 1] : k \in 0..MaxDims}
                  \cup {[i \in 1..k |-> k - i] : k \in 0..MaxDims}
UtilFields == {Feature(n, sh) : n \in UtilNames, sh \in UtilShapes}
UtilDescriptors == UNION {[1..n -> UtilFields] : n \in 0..MaxOutputs}

InitUtil ==
    /\ ExportIdle
    /\ u_outputs \in UtilDescriptors
    /\ u_before = u_outputs
    /\ u_op = "none"
    /\ u_arg = <<>>
    /\ u_idx = 0
    /\ u_ret = <<>>

CallGetOutputNames ==
    /\ u_op' = "get_output_names"
    /\ u_arg' = <<>>
    /\ u_idx' = 0
    /\ u_before' = u_outputs
    /\ u_ret' = get_output_names(u_outputs)
    /\ UNCHANGED <<u_outputs, exportVars>>

CallGetOutputNamed ==
    \E name \in LookupNames :
        /\ u_op' = "get_output_named"
        /\ u_arg' = name
        /\ u_idx' = 0
        /\ u_before' = u_outputs
        /\ u_ret' = get_output_named(u_outputs, name)
        /\ UNCHANGED <<u_outputs, exportVars>>

CallSetMultiarrayShape ==
    \E i \in DOMAIN u_outputs, shape \in UtilShapes :
        /\ u_op' = "set_multiarray_shape"
        /\ u_arg' = shape
        /\ u_idx' = i
        /\ u_before' = u_outputs
        /\ u_outputs' = [u_outputs EXCEPT ![i] = set_multiarray_shape(@, shape)]
        /\ u_ret' = <<>>
        /\ UNCHANGED exportVars

NextUtil ==
    \/ CallGetOutputNames
    \/ CallGetOutputNamed
    \/ CallSetMultiarrayShape

SpecUtil == InitUtil /\ [][NextUtil]_vars

\* ================================================================ properties
RECURSIVE CountFrom(_, _, _)
CountFrom(seq, e, i) ==
    IF i > Len(seq) THEN 0
    ELSE (IF seq[i] = e THEN 1 ELSE 0) + CountFrom(seq, e, i + 1)

Count(e) == CountFrom(log, e, 1)

Mutations == {"rename", "set_shape", "set_pointer", "describe", "metadata"}

Positions(e) == {i \in DOMAIN log : log[i] = e}

Terminated == pc \in {"raised", "returned"}

\* The call was ended neither by the argument check nor by the toolchain.
Unhindered == Terminated /\ arg_ok /\ err # "ToolchainError"

\* C1: in both exporters a tokenizer / feature extractor of the wrong type ends
\* the call with ValueError, and at that point nothing has been traced,
\* converted, reloaded or quantized and no descriptor has been touched,
\* whatever the model and the other options are.
C1_ValueErrorBeforeAnyWork ==
    (pc \notin {"idle", "check"} /\ ~arg_ok) =>
        /\ pc = "raised"
        /\ err = "ValueError"
        /\ Count("trace") = 0
        /\ Count("convert") = 0
        /\ Count("reload") = 0
        /\ Count("quantize") = 0
        /\ \A m \in Mutations : Count(m) = 0
        /\ description = NoDescription
        /\ mlmodel = "none"

C1_Witness ==
    /\ pc = "raised"
    /\ err = "ValueError"
    /\ exporter = "segformer"
    /\ torch_model = "SegformerForSemanticSegmentation"
    /\ legacy
    /\ quantize = "float16"

\* C2: a call that returns has quantized post hoc exactly once when legacy is
\* set and quantize is "float16", and not at all otherwise.
C2_PostHocQuantizationCount ==
    pc = "returned" =>
        Count("quantize") = (IF legacy /\ quantize = "float16" THEN 1 ELSE 0)

C2_Witness ==
    /\ pc = "returned"
    /\ legacy
    /\ quantize = "float16"
    /\ Count("quantize") = 1
    /\ mlmodel = "quantized"

\* C3: a call that returns has traced, converted and reloaded exactly once each,
\* in that order; every descriptor mutation lies after the convert and before
\* the reload; a quantization, if any, comes last and is given the reloaded
\* package.
C3_StepOrder ==
    pc = "returned" =>
        /\ Count("trace") = 1
        /\ Count("convert") = 1
        /\ Count("reload") = 1
        /\ log[1] = "trace"
        /\ log[2] = "convert"
        /\ \A i \in DOMAIN log, r \in Positions("reload") :
               /\ log[i] \in Mutations => (2 < i /\ i < r)
               /\ log[i] = "forward" => (2 < i /\ i < r)
               /\ log[i] = "quantize" => (i = r + 1 /\ i = Len(log))
        /\ Count("quantize") <= 1
        /\ Count("quantize") = 1 => quantized_from = "reloaded"
        /\ pkg_description = description

C3_Witness ==
    /\ pc = "returned"
    /\ Count("rename") = 1
    /\ Count("set_shape") = 1
    /\ Count("metadata") = 1
    /\ Count("quantize") = 1

\* C4: whenever ct.convert is called it is called once, with convert_to
\* "mlprogram" unless legacy (then "neuralnetwork"), and with float16 compute
\* precision exactly when quantize is "float16" and legacy is off; under legacy
\* no precision is passed, and otherwise any other quantize value gives float32.
C4_ConvertArguments ==
    Count("convert") >= 1 =>
        /\ Count("convert") = 1
        /\ convert_args.convert_to = (IF legacy THEN "neuralnetwork" ELSE "mlprogram")
        /\ (convert_args.compute_precision = "FLOAT16") <=> (quantize = "float16" /\ ~legacy)
        /\ legacy => convert_args.compute_precision = "<absent>"
        /\ (~legacy /\ quantize # "float16") => convert_args.compute_precision = "FLOAT32"

C4_Witness ==
    /\ Count("convert") = 1
    /\ ~legacy
    /\ quantize = "float16"
    /\ convert_args.compute_precision = "FLOAT16"
    /\ convert_args.convert_to = "mlprogram"

\* C5: distilbert.export on a question-answering model, with a proper tokenizer
\* and a toolchain that does not fail, returns a package whose outputs are named
\* start_scores and end_scores, in that order, each of shape (1, sequence_length).
C5_QAOutputs ==
    (exporter = "distilbert" /\ torch_model \in QAClasses /\ Unhindered) =>
        /\ pc = "returned"
        /\ get_output_names(pkg_description.output) = <<"start_scores", "end_scores">>
        /\ \A i \in DOMAIN pkg_description.output :
               pkg_description.output[i].shape = <<1, size>>

\* C6: segformer.export on a semantic-segmentation model, with a proper feature
\* extractor and a toolchain that does not fail, returns a package whose only
\* output is named classLabels under do_argmax and probabilities otherwise, with
\* the shape of one extra forward pass of the adapter.
C6_SegmentationOutput ==
    (exporter = "segformer" /\ torch_model = "SegformerForSemanticSegmentation"
                            /\ Unhindered) =>
        /\ pc = "returned"
        /\ get_output_names(pkg_description.output) =
               <<IF do_argmax THEN "classLabels" ELSE "probabilities">>
        /\ pkg_description.output[1].shape = SegformerForward.shape
        /\ Count("forward") = 1

\* C7: the package segformer.export returns for a classification model has its
\* probabilities output named "probabilities", and predictedProbabilitiesName
\* is "probabilities" too, so the pointer names an output that exists.
C7_ProbabilitiesPointer ==
    (pc = "returned" /\ exporter = "segformer"
                     /\ torch_model = "SegformerForImageClassification") =>
        /\ pkg_description.predictedProbabilitiesName = "probabilities"
        /\ pkg_description.output[1].name = "probabilities"
        /\ get_output_named(pkg_description.output,
                            pkg_description.predictedProbabilitiesName) = 1
        /\ get_output_names(pkg_description.output) = <<"probabilities", "classLabel">>

C7_Witness ==
    /\ pc = "returned"
    /\ exporter = "segformer"
    /\ torch_model = "SegformerForImageClassification"
    /\ converter_names = <<"var_1">>
    /\ pkg_description.predictedProbabilitiesName = "probabilities"

MetadataKeys(d) == DOMAIN d.userDefined

\* The part of C8 about transformers_version alone, on the calls that return.
TransformersVersionRecorded ==
    pc = "returned" =>
        /\ ("transformers_version" \in MetadataKeys(pkg_description))
               <=> Truthy(transformers_version)
        /\ Truthy(transformers_version) =>
               pkg_description.userDefined["transformers_version"] = transformers_version
        /\ "com.github.apple.coremltools.source" \in MetadataKeys(pkg_description)

\* C8: the returned package's custom metadata holds transformers_version exactly
\* when the model's config carries a version string, with that string as its
\* value; and for a segmentation model the call returns a package that holds
\* it together with "classes" and the two previewer keys.
C8_Metadata ==
    /\ TransformersVersionRecorded
    /\ (exporter = "segformer" /\ torch_model = "SegformerForSemanticSegmentation"
                               /\ Unhindered) =>
          /\ pc = "returned"
          /\ {"classes", "com.apple.coreml.model.preview.type",
              "com.apple.coreml.model.preview.params"} \subseteq MetadataKeys(pkg_description)
          /\ pkg_description.userDefined["classes"] = CommaJoin(ClassLabels)
          /\ pkg_description.userDefined["com.apple.coreml.model.preview.type"]
                 = "imageSegmenter"

\* C9: get_output_named returns the first output, in declaration order, whose
\* name is the one asked for, and None when there is none (also on an empty
\* list); get_output_names returns the names in declaration order; neither
\* changes the descriptor.
C9_Accessors ==
    /\ u_op = "get_output_named" =>
          /\ u_outputs = u_before
          /\ u_ret \in 0..Len(u_outputs)
          /\ u_ret = 0 <=> (\A i \in DOMAIN u_outputs : u_outputs[i].name # u_arg)
          /\ u_ret # 0 =>
                /\ u_outputs[u_ret].name = u_arg
                /\ \A j \in 1..(u_ret - 1) : u_outputs[j].name # u_arg
    /\ u_op = "get_output_names" =>
          /\ u_outputs = u_before
          /\ Len(u_ret) = Len(u_outputs)
          /\ \A i \in DOMAIN u_outputs : u_ret[i] = u_outputs[i].name

C9_Witness ==
    /\ u_op = "get_output_named"
    /\ Len(u_outputs) = 2
    /\ u_outputs[1].name = u_arg
    /\ u_outputs[2].name = u_arg
    /\ u_outputs[1].shape # u_outputs[2].shape
    /\ u_ret = 1

\* C10: after set_multiarray_shape(node, shape) the node's shape is the sequence
\* supplied, whatever it was before; a second call with the same shape changes
\* nothing; the node's name and description and every other node are as before.
C10_ShapeReplaced ==
    u_op = "set_multiarray_shape" =>
        /\ u_outputs[u_idx].shape = u_arg
        /\ Len(u_outputs[u_idx].shape) = Len(u_arg)
        /\ set_multiarray_shape(u_outputs[u_idx], u_arg) = u_outputs[u_idx]
        /\ u_outputs[u_idx].name = u_before[u_idx].name
        /\ u_outputs[u_idx].shortDescription = u_before[u_idx].shortDescription
        /\ Len(u_outputs) = Len(u_before)
        /\ \A j \in DOMAIN u_outputs : j # u_idx => u_outputs[j] = u_before[j]

C10_Witness ==
    /\ u_op = "set_multiarray_shape"
    /\ u_before[u_idx].shape = <<0, 1>>
    /\ u_arg = <<1, 0>>
    /\ u_outputs[u_idx].shape = <<1, 0>>
    /\ Len(u_outputs) = 2

====
